---- MODULE Spec2Model ----
(***************************************************************************)
(* FCFS scheduling simulator (src/app/projects/fcfs/page.tsx).             *)
(*                                                                         *)
(* Two specifications over one set of variables:                           *)
(*   Spec      the FCFSSimulator component: the rows of the input table    *)
(*             and the handlers updateField, addProcess, removeProcess     *)
(*             and calculateFCFS;                                          *)
(*   SpecFcfs  the pure function fcfs applied to every list of processes   *)
(*             within the bounds.                                          *)
(*                                                                         *)
(* Encodings.  A string the code compares or parses (a pid, a typed        *)
(* value) is a sequence of one-character strings.  A "number or empty      *)
(* string" field and a "value or null" state are sequences of length at    *)
(* most one: <<>> is "" / null, <<x>> holds x.  Array positions are        *)
(* 1-based here and 0-based in the source.                                 *)
(***************************************************************************)
EXTENDS Integers, Sequences, FiniteSets

VARIABLES
    processes,          \* useState<Process[]>            (line 325)
    results,            \* useState<ProcessResult[]|null> (line 326)
    ganttData,          \* useState<GanttData|null>       (line 327)
    error,              \* useState("")                   (line 328)
    numericProcesses    \* the list the last handler called fcfs with (line 381);
                        \* null when it made no call

vars == <<processes, results, ganttData, error, numericProcesses>>

\* ------------------------------------------------------------------ bounds
MaxEditRow == 1    \* the user types into the rows at positions 1..MaxEditRow
MaxRows == 10      \* rows addProcess may grow the table to
MaxProcs == 2      \* length of the lists SpecFcfs hands to fcfs
MaxArrival == 3    \* largest arrival SpecFcfs draws
MaxBurst == 2      \* largest burst SpecFcfs draws

\* --------------------------------------------------------------- constants
MAX_TIME_UNIT == 500

\* ---------------------------------------------------------------- encoding
None == <<>>
Some(x) == <<x>>

\* The "" of an empty arrival / burst field, and a number in such a field.
Empty == <<>>
Num(n) == <<n>>

DigitChars == <<"0", "1", "2", "3", "4", "5", "6", "7", "8", "9">>

IsDigit(c) == \E d \in 1..10 : DigitChars[d] = c

DigitValue(c) == (CHOOSE d \in 1..10 : DigitChars[d] = c) - 1

\* Number -> decimal string, as the template literal `P${n}` formats it.
RECURSIVE Decimal(_)
Decimal(n) ==
    IF n < 10 THEN <<DigitChars[n + 1]>>
    ELSE Decimal(n \div 10) \o <<DigitChars[(n % 10) + 1]>>

\* `P${n}`
PidOf(n) == <<"P">> \o Decimal(n)

\* The label of an idle unit of the timeline.
IDLE == <<"I", "D", "L", "E">>

\* /^\d*$/.test(value)
DigitsOnly(value) == \A k \in 1..Len(value) : IsDigit(value[k])

\* parseInt(value) for a non-empty string of digits.
RECURSIVE parseInt(_)
parseInt(value) ==
    IF Len(value) = 0 THEN 0
    ELSE 10 * parseInt(SubSeq(value, 1, Len(value) - 1)) + DigitValue(value[Len(value)])

\* ------------------------------------------------------------------- fcfs

\* Collation rank of a character: digits before letters.
CharRank(c) == IF IsDigit(c) THEN DigitValue(c) ELSE 10

\* a.localeCompare(b): negative, zero or positive.
RECURSIVE localeCompare(_, _)
localeCompare(a, b) ==
    IF a = <<>> /\ b = <<>> THEN 0
    ELSE IF a = <<>> THEN -1
    ELSE IF b = <<>> THEN 1
    ELSE IF CharRank(Head(a)) < CharRank(Head(b)) THEN -1
    ELSE IF CharRank(Head(a)) > CharRank(Head(b)) THEN 1
    ELSE localeCompare(Tail(a), Tail(b))

\* (mutant) the comparator without its tie-break on the pid.
compareArrivalOnly(a, b) == a.arrival - b.arrival

\* The comparator of the sort: a.arrival - b.arrival || a.pid.localeCompare(b.pid)
compare(a, b) ==
    IF a.arrival - b.arrival # 0 THEN a.arrival - b.arrival
    ELSE localeCompare(a.pid, b.pid)

\* x put into the sorted sequence s, behind every element that does not
\* compare greater than it (Array.prototype.sort is stable).
RECURSIVE Insert(_, _)
Insert(s, x) ==
    IF s = <<>> THEN <<x>>
    ELSE IF compare(s[Len(s)], x) > 0
         THEN Insert(SubSeq(s, 1, Len(s) - 1), x) \o <<s[Len(s)]>>
         ELSE s \o <<x>>

\* processes.map(p => ({...p})).sort(compare)
RECURSIVE SortProcs(_)
SortProcs(ps) ==
    IF ps = <<>> THEN <<>>
    ELSE Insert(SortProcs(SubSeq(ps, 1, Len(ps) - 1)), ps[Len(ps)])

\* (mutant) the push loop stopping one unit early.
RepeatOneShort(x, n) == [k \in 1..(n - 1) |-> x]

\* n pushes of x (a for loop `for (i = 0; i < n; i++) push(x)`).
Repeat(x, n) == [k \in 1..n |-> x]

\* (mutant) the start of a process never moved to its arrival.
startTimeNoIdle(time, current) == time

\* let startTime = time; if (current.arrival > time) { ...; startTime = current.arrival; }
startTime(time, current) == IF current.arrival > time THEN current.arrival ELSE time

\* (mutant) the idle gap measured from 0 instead of from the clock.
idleUnitsFromZero(time, current) ==
    IF current.arrival > time THEN Repeat(IDLE, current.arrival) ELSE <<>>

\* The pushes of "IDLE" made when current.arrival > time.
idleUnits(time, current) ==
    IF current.arrival > time THEN Repeat(IDLE, current.arrival - time) ELSE <<>>

\* (mutant) the completion counted from the arrival, not from the clock.
completionFromArrival(start, current) == current.arrival + current.burst

\* const completionTime = startTime + current.burst
completionTime(start, current) == start + current.burst

\* (mutant) the waiting time without the arrival subtracted.
waitingFromZero(completion, current) == completion - current.burst

\* waiting: completionTime - current.arrival - current.burst
waiting(completion, current) == completion - current.arrival - current.burst

\* One iteration of `for (const current of procs)` on the loop state
\* st = [done, time, uncompressedTimeline].
LoopBody(st, current) ==
    LET completion == completionTime(startTime(st.time, current), current)
    IN  [ done |-> Append(st.done,
                     [ pid |-> current.pid,
                       arrival |-> current.arrival,
                       burst |-> current.burst,
                       completion |-> completion,
                       turnaround |-> completion - current.arrival,
                       waiting |-> waiting(completion, current) ]),
          time |-> completion,
          uncompressedTimeline |->
              st.uncompressedTimeline \o idleUnits(st.time, current)
                                      \o Repeat(current.pid, current.burst) ]

\* The loop over the first k sorted processes.
RECURSIVE Simulate(_, _)
Simulate(procs, k) ==
    IF k = 0 THEN [ done |-> <<>>, time |-> 0, uncompressedTimeline |-> <<>> ]
    ELSE LoopBody(Simulate(procs, k - 1), procs[k])

\* (mutant) a block pushed at every unit.
IsBlockEndAlways(tl, t) == TRUE

\* The positions t (0-based) at which the compression loop pushes a block:
\* the last unit, or a unit whose successor differs.
IsBlockEnd(tl, t) == t = Len(tl) - 1 \/ tl[t + 2] # tl[t + 1]

\* (mutant) the compression loop with blocks ending at t instead of t + 1.
RECURSIVE CompressEndAtT(_, _, _)
CompressEndAtT(tl, blockStart, acc) ==
    IF blockStart >= Len(tl) THEN acc
    ELSE LET ends == {u \in blockStart..(Len(tl) - 1) : IsBlockEnd(tl, u)}
             t == CHOOSE u \in ends : \A w \in ends : u <= w
         IN  CompressEndAtT(tl, t + 1,
                      Append(acc, [ process |-> tl[t + 1], start |-> blockStart, end |-> t ]))

\* The compression loop from the point where its variable blockStart has
\* the given value and `acc` holds the blocks pushed so far.  The loop acts
\* only at block ends, so the recursion steps from one block end to the
\* next: t is the first block end at or after blockStart.
RECURSIVE Compress(_, _, _)
Compress(tl, blockStart, acc) ==
    IF blockStart >= Len(tl) THEN acc
    ELSE LET ends == {u \in blockStart..(Len(tl) - 1) : IsBlockEnd(tl, u)}
             t == CHOOSE u \in ends : \A w \in ends : u <= w
         IN  Compress(tl, t + 1,
                      Append(acc, [ process |-> tl[t + 1], start |-> blockStart, end |-> t + 1 ]))

\* A finite set of numbers as an ascending sequence: Array.from(new Set(..)).sort((a, b) => a - b)
RECURSIVE SortedSeq(_)
SortedSeq(S) ==
    IF S = {} THEN <<>>
    ELSE LET m == CHOOSE x \in S : \A y \in S : x <= y
         IN  <<m>> \o SortedSeq(S \ {m})

\* (mutant) the markers taken from the block starts alone.
TimeMarkersStartsOnly(ganttBlocks) ==
    SortedSeq({ganttBlocks[k].start : k \in 1..Len(ganttBlocks)})

\* Array.from(new Set(starts.concat(ends))).sort((a, b) => a - b)
TimeMarkers(ganttBlocks) ==
    SortedSeq({ganttBlocks[k].start : k \in 1..Len(ganttBlocks)}
              \cup {ganttBlocks[k].end : k \in 1..Len(ganttBlocks)})

\* timeMarkers[timeMarkers.length - 1] || 0
TotalTime(timeMarkers) ==
    IF Len(timeMarkers) = 0 THEN 0 ELSE timeMarkers[Len(timeMarkers)]

fcfs(ps) ==
    LET procs == SortProcs(ps)
        st == Simulate(procs, Len(procs))
        ganttBlocks == Compress(st.uncompressedTimeline, 0, <<>>)
        timeMarkers == TimeMarkers(ganttBlocks)
    IN  [ ganttBlocks |-> ganttBlocks,
          timeMarkers |-> timeMarkers,
          totalTime |-> TotalTime(timeMarkers),
          results |-> st.done ]

\* ------------------------------------------------------- the component

getInitialProcesses ==
    [ k \in 1..5 |-> [ pid |-> PidOf(k), arrival |-> Empty, burst |-> Empty ] ]

\* The fields the two inputs of a row are wired to (lines 452 and 464).
Fields == {"arrival", "burst"}

\* What the user leaves in a number input (e.target.value): the arrival
\* input is given "", "0", "01" and "-1", the burst input "", "0", "1",
\* "500" and "501".
InputValues(field) ==
    IF field = "arrival"
    THEN { <<>>, <<"0">>, <<"0", "1">>, <<"-", "1">> }
    ELSE { <<>>, <<"0">>, <<"1">>, <<"5", "0", "0">>, <<"5", "0", "1">> }

\* The rows whose inputs the user types into.
EditRows == {i \in 1..Len(processes) : i <= MaxEditRow}

Init ==
    /\ processes = getInitialProcesses
    /\ results = None
    /\ ganttData = None
    /\ error = ""
    /\ numericProcesses = None

updateField(i, field, value) ==
    /\ error' = ""
    /\ IF field = "pid"
       THEN processes' = [processes EXCEPT ![i].pid = value]
       ELSE IF ~DigitsOnly(value)
            THEN UNCHANGED processes
            ELSE LET v == IF value = <<>> THEN Empty ELSE Num(parseInt(value))
                 IN  processes' = [processes EXCEPT ![i][field] = v]
    /\ numericProcesses' = None
    /\ UNCHANGED <<results, ganttData>>

addProcess ==
    /\ Len(processes) < MaxRows
    /\ processes' = Append(processes,
           [ pid |-> PidOf(Len(processes) + 1), arrival |-> Empty, burst |-> Empty ])
    /\ results' = None
    /\ ganttData' = None
    /\ numericProcesses' = None
    /\ UNCHANGED error

\* copy.splice(i, 1)
Splice(s, i) == SubSeq(s, 1, i - 1) \o SubSeq(s, i + 1, Len(s))

\* (mutant) the rows left with the pids they had before the removal.
RenumberKeepingPids(copy) == copy

\* copy.map((p, index) => ({ ...p, pid: `P${index + 1}` }))
Renumber(copy) == [ k \in 1..Len(copy) |-> [copy[k] EXCEPT !.pid = PidOf(k)] ]

\* The remove button of a row is rendered only while processes.length > 1.
removeProcess(i) ==
    /\ Len(processes) > 1
    /\ processes' = Renumber(Splice(processes, i))
    /\ results' = None
    /\ ganttData' = None
    /\ numericProcesses' = None
    /\ UNCHANGED error

\* processes.filter(p => p.arrival !== "" && p.burst !== "")
RECURSIVE Filter(_)
Filter(ps) ==
    IF ps = <<>> THEN <<>>
    ELSE LET rest == Filter(SubSeq(ps, 1, Len(ps) - 1))
             p == ps[Len(ps)]
         IN  IF p.arrival # Empty /\ p.burst # Empty THEN Append(rest, p) ELSE rest

validProcesses == Filter(processes)

\* (mutant) the cap on the burst applied one unit early.
OutOfRangeCapExclusive(p) ==
    p.arrival[1] < 0 \/ p.burst[1] <= 0 \/ p.burst[1] >= MAX_TIME_UNIT

\* p.arrival < 0 || p.burst <= 0 || p.burst > MAX_TIME_UNIT
OutOfRange(p) == p.arrival[1] < 0 \/ p.burst[1] <= 0 \/ p.burst[1] > MAX_TIME_UNIT

Numeric(ps) ==
    [ k \in 1..Len(ps) |->
        [ pid |-> ps[k].pid, arrival |-> ps[k].arrival[1], burst |-> ps[k].burst[1] ] ]

ErrNoProcess == "Please enter valid Arrival and Burst times for at least one process."
ErrRange == "Arrival Time must be non-negative, and Burst Time must be positive (max 500)."

\* (mutant) a rejection that leaves the displayed results in place.
RejectKeepingResults(message) ==
    /\ error' = message
    /\ numericProcesses' = None
    /\ UNCHANGED <<processes, results, ganttData>>

\* setError(message); setResults(null); setGanttData(null); return;
Reject(message) ==
    /\ error' = message
    /\ results' = None
    /\ ganttData' = None
    /\ numericProcesses' = None
    /\ UNCHANGED processes

\* fcfs does not throw on the lists that pass the validation, so the catch
\* branch (lines 392-395) is never taken.
calculateFCFS ==
    IF Len(validProcesses) = 0
    THEN Reject(ErrNoProcess)
    ELSE IF \E k \in 1..Len(validProcesses) : OutOfRange(validProcesses[k])
    THEN Reject(ErrRange)
    ELSE LET out == fcfs(Numeric(validProcesses))
         IN  /\ numericProcesses' = Some(Numeric(validProcesses))
             /\ results' = Some(out.results)
             /\ ganttData' = Some([ ganttBlocks |-> out.ganttBlocks,
                                    timeMarkers |-> out.timeMarkers,
                                    totalTime |-> out.totalTime ])
             /\ error' = ""
             /\ UNCHANGED processes

Next ==
    \/ \E i \in EditRows, field \in Fields : \E value \in InputValues(field) :
           updateField(i, field, value)
    \/ addProcess
    \/ \E i \in 1..Len(processes) : removeProcess(i)
    \/ calculateFCFS

Spec == Init /\ [][Next]_vars

\* ------------------------------------------------ fcfs as a pure function

\* The pids SpecFcfs draws: as strings, P1 < P10 < P2.
Pids == { PidOf(1), PidOf(2), PidOf(10) }

Procs == [ pid : Pids, arrival : 0..MaxArrival, burst : 1..MaxBurst ]

InitFcfs ==
    /\ processes = getInitialProcesses
    /\ results = None
    /\ ganttData = None
    /\ error = ""
    /\ \E n \in 0..MaxProcs : \E ps \in [1..n -> Procs] : numericProcesses = Some(ps)

\* const { results, ganttBlocks, timeMarkers, totalTime } = fcfs(numericProcesses)
CallFcfs ==
    /\ results = None
    /\ LET out == fcfs(numericProcesses[1])
       IN  /\ results' = Some(out.results)
           /\ ganttData' = Some([ ganttBlocks |-> out.ganttBlocks,
                                  timeMarkers |-> out.timeMarkers,
                                  totalTime |-> out.totalTime ])
    /\ UNCHANGED <<processes, error, numericProcesses>>

NextFcfs == CallFcfs

SpecFcfs == InitFcfs /\ [][NextFcfs]_vars

\* ------------------------------------------------------------ properties

\* The call under inspection: its argument, its results, its Gantt blocks.
Called == numericProcesses # None /\ results # None /\ ganttData # None
Arg == numericProcesses[1]
Res == results[1]
Blocks == ganttData[1].ganttBlocks

\* Lexicographic order of two pids, character by character.
PidLeq(a, b) ==
    \/ a = b
    \/ \E k \in 1..Len(b) :
          /\ \A j \in 1..(k - 1) : j <= Len(a) /\ a[j] = b[j]
          /\ k - 1 <= Len(a)
          /\ (k > Len(a) \/ CharRank(a[k]) < CharRank(b[k]))

\* The input process a result row was made from.
InputOf(r) == [ pid |-> r.pid, arrival |-> r.arrival, burst |-> r.burst ]

IsPermutation(res, arg) ==
    /\ Len(res) = Len(arg)
    /\ \E f \in [1..Len(arg) -> 1..Len(arg)] :
          /\ \A j, k \in 1..Len(arg) : j # k => f[j] # f[k]
          /\ \A k \in 1..Len(arg) : InputOf(res[k]) = arg[f[k]]

UniquePids(arg) == \A j, k \in 1..Len(arg) : j # k => arg[j].pid # arg[k].pid

\* The clock before the k-th process of the execution order.
PrevCompletion(k) == IF k = 1 THEN 0 ELSE Res[k - 1].completion

StartOf(k) ==
    IF Res[k].arrival > PrevCompletion(k) THEN Res[k].arrival ELSE PrevCompletion(k)

RECURSIVE SumDurations(_)
SumDurations(blocks) ==
    IF blocks = <<>> THEN 0
    ELSE (Head(blocks).end - Head(blocks).start) + SumDurations(Tail(blocks))

\* C1: the results of fcfs are the input processes ordered by arrival
\* ascending, equal arrivals by pid ascending.
C1_Ordering ==
    Called =>
        /\ IsPermutation(Res, Arg)
        /\ \A k \in 1..(Len(Res) - 1) :
              \/ Res[k].arrival < Res[k + 1].arrival
              \/ /\ Res[k].arrival = Res[k + 1].arrival
                 /\ PidLeq(Res[k].pid, Res[k + 1].pid)

\* P2 and P1 both arrive at 0, P2 first in the input: P1 runs first.
C1_Witness ==
    /\ Called
    /\ Arg = << [ pid |-> PidOf(2), arrival |-> 0, burst |-> 2 ],
                [ pid |-> PidOf(1), arrival |-> 0, burst |-> 1 ] >>
    /\ Res[1].pid = PidOf(1)
    /\ Res[2].pid = PidOf(2)

\* C2: every process in the results has waiting >= 0 and turnaround >= burst.
C2_NonNegative ==
    Called =>
        \A k \in 1..Len(Res) :
            Res[k].waiting >= 0 /\ Res[k].turnaround >= Res[k].burst

\* One process waited, another started after an idle gap.
C2_Witness ==
    /\ Called
    /\ \E k \in 1..Len(Res) : Res[k].waiting > 0
    /\ \E k \in 1..Len(Res) : Res[k].arrival > PrevCompletion(k)

\* C3: for a non-empty input the Gantt blocks start at 0, every block has
\* end > start, and each block ends where the next one starts.
C3_Contiguous ==
    (Called /\ Len(Arg) >= 1) =>
        /\ Len(Blocks) >= 1
        /\ Blocks[1].start = 0
        /\ \A k \in 1..Len(Blocks) : Blocks[k].end > Blocks[k].start
        /\ \A k \in 1..(Len(Blocks) - 1) : Blocks[k].end = Blocks[k + 1].start

\* Four blocks, two of them idle.
C3_Witness ==
    /\ Called
    /\ Len(Blocks) = 4
    /\ Blocks[1].process = IDLE
    /\ Blocks[3].process = IDLE

\* C4: for a non-empty input the block durations sum to totalTime, which is
\* the completion of the last process of the results and the maximum
\* completion.
C4_Coverage ==
    (Called /\ Len(Arg) >= 1) =>
        /\ SumDurations(Blocks) = ganttData[1].totalTime
        /\ ganttData[1].totalTime = Res[Len(Res)].completion
        /\ \A k \in 1..Len(Res) : Res[k].completion <= ganttData[1].totalTime

\* Two processes with an idle gap between them.
C4_Witness ==
    /\ Called
    /\ Len(Res) = 2
    /\ Res[2].arrival > Res[1].completion
    /\ ganttData[1].totalTime = Res[2].completion

\* C5: no two adjacent Gantt blocks carry the same label.
C5_MaximalRuns ==
    Called =>
        \A k \in 1..(Len(Blocks) - 1) : Blocks[k].process # Blocks[k + 1].process

\* Two processes of the same pid run back to back and share one block.
C5_Witness ==
    /\ Called
    /\ Len(Res) = 2
    /\ Res[1].pid = Res[2].pid
    /\ Res[2].arrival <= Res[1].completion
    /\ Len(Blocks) = 1
    /\ Blocks[1].end = Res[2].completion

\* C6: with unique pids, every input process has exactly one Gantt block
\* labelled with its pid.
C6_OneBlockPerProcess ==
    (Called /\ UniquePids(Arg)) =>
        \A j \in 1..Len(Arg) :
            Cardinality({k \in 1..Len(Blocks) : Blocks[k].process = Arg[j].pid}) = 1

\* Two processes of distinct pids, each running for more than one unit.
C6_Witness ==
    /\ Called
    /\ Len(Arg) = 2
    /\ UniquePids(Arg)
    /\ \A j \in 1..2 : Arg[j].burst >= 2

\* C7 as stated: waiting = 0 only for the first process, and only when it
\* starts at time 0; every other process has waiting > 0.
C7_Original ==
    Called =>
        \A k \in 1..Len(Res) :
            IF k = 1 /\ StartOf(1) = 0 THEN TRUE ELSE Res[k].waiting > 0

\* C7 amended: waiting = 0 exactly for the processes that start at their
\* own arrival (the clock before them has not passed it); every other
\* process has waiting > 0, and the first process always has waiting = 0.
C7_WaitingZero ==
    Called =>
        /\ \A k \in 1..Len(Res) :
              /\ Res[k].arrival >= PrevCompletion(k) => Res[k].waiting = 0
              /\ Res[k].arrival < PrevCompletion(k) => Res[k].waiting > 0
        /\ Len(Res) >= 1 => Res[1].waiting = 0

\* The first process starts after an idle gap, the second waits.
C7_Witness ==
    /\ Called
    /\ Len(Res) = 2
    /\ Res[1].arrival > 0
    /\ Res[1].waiting = 0
    /\ Res[2].waiting > 0

\* C10: with unique pids, each process starts at the larger of its arrival
\* and the completion before it, completes burst later, has turnaround =
\* completion - arrival and waiting = turnaround - burst, and its Gantt
\* block spans exactly [start, completion).
C10_Metrics ==
    (Called /\ UniquePids(Arg)) =>
        \A k \in 1..Len(Res) :
            /\ Res[k].completion = StartOf(k) + Res[k].burst
            /\ Res[k].turnaround = Res[k].completion - Res[k].arrival
            /\ Res[k].waiting = Res[k].turnaround - Res[k].burst
            /\ \E b \in 1..Len(Blocks) :
                  /\ Blocks[b].process = Res[k].pid
                  /\ Blocks[b].start = StartOf(k)
                  /\ Blocks[b].end = Res[k].completion

\* P2 arrives while P1 runs and starts at P1's completion.
C10_Witness ==
    /\ Called
    /\ Len(Res) = 2
    /\ UniquePids(Arg)
    /\ Res[2].arrival > Res[1].arrival
    /\ Res[2].arrival < Res[1].completion
    /\ Res[2].completion = Res[1].completion + Res[2].burst

\* A row with both fields filled in.
RowFilled(p) == p.arrival # Empty /\ p.burst # Empty

\* The table holds nothing to schedule, or a filled row out of range.
Rejected ==
    \/ \A k \in 1..Len(processes) : ~RowFilled(processes[k])
    \/ \E k \in 1..Len(processes) :
          /\ RowFilled(processes[k])
          /\ \/ processes[k].arrival[1] < 0
             \/ processes[k].burst[1] <= 0
             \/ processes[k].burst[1] > 500

\* C8: calculateFCFS calls fcfs only with a non-empty list of processes
\* with arrival >= 0 and 0 < burst <= 500; on a table with no filled row or
\* with a filled row out of range it makes no call, sets an error message
\* and sets results and ganttData to null.
C8_Validation ==
    [][ calculateFCFS =>
          /\ numericProcesses' # None =>
                /\ Len(numericProcesses'[1]) >= 1
                /\ \A k \in 1..Len(numericProcesses'[1]) :
                      /\ numericProcesses'[1][k].arrival >= 0
                      /\ numericProcesses'[1][k].burst > 0
                      /\ numericProcesses'[1][k].burst <= 500
          /\ Rejected =>
                /\ numericProcesses' = None
                /\ error' # ""
                /\ results' = None
                /\ ganttData' = None
          /\ ~Rejected => numericProcesses' # None ]_vars

\* A burst of 501 was rejected.
C8_Witness ==
    /\ error = ErrRange
    /\ results = None
    /\ ganttData = None
    /\ numericProcesses = None
    /\ \E k \in 1..Len(processes) :
          RowFilled(processes[k]) /\ processes[k].burst[1] = 501

C11_IdleBlocks ==
    Called =>
        /\ \A k \in 1..Len(Res) :
              Res[k].arrival > PrevCompletion(k) =>
                  \E b \in 1..(Len(Blocks) - 1) :
                      /\ Blocks[b].process = IDLE
                      /\ Blocks[b].start = PrevCompletion(k)
                      /\ Blocks[b].end = Res[k].arrival
                      /\ Blocks[b + 1].process = Res[k].pid
                      /\ Blocks[b + 1].start = Res[k].arrival
        /\ \A b \in 1..Len(Blocks) :
              Blocks[b].process = IDLE =>
                  \E k \in 1..Len(Res) :
                      /\ Res[k].arrival > PrevCompletion(k)
                      /\ Blocks[b].start = PrevCompletion(k)
                      /\ Blocks[b].end = Res[k].arrival

\* The first process arrives after 0 and the second one unit after the
\* first has completed: an idle block before each, a third process or a
\* back-to-back start would add none.
C11_Witness ==
    /\ Called
    /\ Len(Res) = 2
    /\ Res[1].arrival = 1
    /\ Res[2].arrival = Res[1].completion + 1
    /\ Len(Blocks) = 4
    /\ Blocks[1] = [ process |-> IDLE, start |-> 0, end |-> 1 ]
    /\ Blocks[3] = [ process |-> IDLE, start |-> Res[1].completion,
                     end |-> Res[2].arrival ]

\* The decimal digits of a pid after its leading "P", read as a number;
\* -1 for a string that is not "P" followed by a number without leading zero.
PidNumber(pid) ==
    IF /\ Len(pid) >= 2
       /\ pid[1] = "P"
       /\ DigitsOnly(Tail(pid))
       /\ (pid[2] # "0" \/ Len(pid) = 2)
    THEN parseInt(Tail(pid))
    ELSE -1

\* C12: the table is never empty, the row at position i has pid "P"
\* followed by i, and the pids calculateFCFS hands to fcfs are pairwise
\* distinct.
C12_RowPids ==
    /\ Len(processes) >= 1
    /\ \A i \in 1..Len(processes) : PidNumber(processes[i].pid) = i
    /\ numericProcesses # None => UniquePids(numericProcesses[1])

\* Five rows were added to the initial five: the tenth row is P10.
C12_Witness ==
    /\ Len(processes) = 10
    /\ processes[10].pid = <<"P", "1", "0">>
    /\ processes[1].pid = <<"P", "1">>
    /\ processes[1].burst # Empty

====
